---- MODULE Spec2Model ----
(***************************************************************************)
(* Model of AirCargoProblem (my_air_cargo_problems.py): the grounder of    *)
(* the Load / Unload / Fly schemas, the T/F state codec, the state-        *)
(* transition contract (actions, result, goal_test) and the heuristics.    *)
(*                                                                         *)
(* A fluent expr("At(C1, SFO)") is the tuple <<"At", "C1", "SFO">>; an     *)
(* encoded state 'TFFT' is the sequence <<"T", "F", "F", "T">>.            *)
(***************************************************************************)
EXTENDS Integers, Sequences, FiniteSets, TLC

(* ------------------------------ bounds -------------------------------- *)

\* Largest number of airports / cargos / planes of a generated problem.
MaxAirports == 2
MaxCargos == 2
MaxPlanes == 2
\* Largest number of positions in which a queried state differs from the
\* problem's initial state.
MaxFlips == 1
\* Largest number of actions a search path applies from the initial state.
MaxDepth == 6
\* Largest number of successors of the root that a search evaluates with
\* h_pg_levelsum, and largest number of evaluation steps it makes.
MaxNodes == 2
MaxCalls == 4
\* The runs of get_actions are counted up to this number.
MaxGroundings == 2

AirportPool == <<"JFK", "SFO", "ATL", "ORD">>
CargoPool == <<"C1", "C2", "C3", "C4">>
PlanePool == <<"P1", "P2", "P3", "P4">>
\* An airport that is in no problem: fluents about it are in no vocabulary.
UnknownAirport == "LAX"

VARIABLES
    cargos,            \* self.cargos
    planes,            \* self.planes
    airports,          \* self.airports
    state_map,         \* self.state_map: the fluent vocabulary, in order
    initial_state_TF,  \* self.initial_state_TF
    goal,              \* self.goal
    actions_list,      \* self.actions_list
    node_state,        \* the encoded state the caller currently holds
    path,              \* names of the actions the search applied so far
    ret,               \* the last call: operation, arguments, return value
    pg_cache,          \* the lru_cache of h_pg_levelsum, oldest entry first
    pg_built,          \* number of PlanningGraph objects constructed so far
    pg_log,            \* the h_pg_levelsum calls made so far, in order
    groundings         \* number of runs of get_actions so far

problem_vars == <<cargos, planes, airports, state_map, initial_state_TF,
                  goal, actions_list>>
pg_vars == <<pg_cache, pg_built, pg_log>>
vars == <<cargos, planes, airports, state_map, initial_state_TF, goal,
          actions_list, node_state, path, ret, pg_cache, pg_built, pg_log,
          groundings>>

(* --------------------------- python helpers --------------------------- *)

Range(seq) == {seq[i] : i \in 1..Len(seq)}

\* x in seq
Contains(seq, x) == \E i \in 1..Len(seq) : seq[i] = x

\* seq.index(x): the first position of x; 0 stands for ValueError.
index(seq, x) ==
    IF Contains(seq, x)
    THEN CHOOSE i \in 1..Len(seq) :
            seq[i] = x /\ \A j \in 1..(i - 1) : seq[j] # x
    ELSE 0

\* The concatenation lists[1] + ... + lists[k] of a sequence of sequences.
RECURSIVE ConcatTo(_, _)
ConcatTo(lists, k) ==
    IF k = 0 THEN <<>> ELSE ConcatTo(lists, k - 1) \o lists[k]

Concat(lists) == ConcatTo(lists, Len(lists))

(* ------------------------- fluents and actions ------------------------ *)

\* expr("At({}, {})".format(x, y)) and expr("In({}, {})".format(x, y))
At(x, y) == <<"At", x, y>>
In(x, y) == <<"In", x, y>>

FluentState(pos_list, neg_list) == [pos |-> pos_list, neg |-> neg_list]

\* Action(name, [precond_pos, precond_neg], [effect_add, effect_rem])
Action(name, precond, effect) ==
    [name |-> name,
     precond_pos |-> precond[1], precond_neg |-> precond[2],
     effect_add |-> effect[1], effect_rem |-> effect[2]]

(* -------------------------------- codec ------------------------------- *)

\* encode_state with 'F' only for the fluents listed as negative: a fluent
\* listed nowhere encodes as 'T'.
encode_state_unlisted_true(fs, fluent_map) ==
    [i \in 1..Len(fluent_map) |->
        IF Contains(fs.neg, fluent_map[i]) THEN "F" ELSE "T"]

\* 'T' at the positions of the fluents of fs.pos, 'F' elsewhere.
encode_state(fs, fluent_map) ==
    [i \in 1..Len(fluent_map) |->
        IF Contains(fs.pos, fluent_map[i]) THEN "T" ELSE "F"]

\* The fluents at the 'T' positions, in order, and those at the others.
decode_state(state, fluent_map) ==
    LET positions == [i \in 1..Len(state) |-> i]
        pos_at == SelectSeq(positions, LAMBDA i : state[i] = "T")
        neg_at == SelectSeq(positions, LAMBDA i : state[i] # "T")
    IN FluentState([k \in 1..Len(pos_at) |-> fluent_map[pos_at[k]]],
                   [k \in 1..Len(neg_at) |-> fluent_map[neg_at[k]]])

(* ------------------------------ grounder ------------------------------ *)

load_actions ==
    Concat([i \in 1..Len(airports) |->
      Concat([j \in 1..Len(cargos) |->
        [k \in 1..Len(planes) |->
          LET airport == airports[i]
              cargo == cargos[j]
              plane == planes[k]
          IN Action(<<"Load", cargo, plane, airport>>,
                    << <<At(plane, airport), At(cargo, airport)>>, <<>> >>,
                    << <<In(cargo, plane)>>, <<At(cargo, airport)>> >>)]])])

\* unload_actions with the effects of Load pasted in: adds In, deletes At.
unload_actions_load_effects ==
    Concat([i \in 1..Len(airports) |->
      Concat([j \in 1..Len(cargos) |->
        [k \in 1..Len(planes) |->
          LET airport == airports[i]
              cargo == cargos[j]
              plane == planes[k]
          IN Action(<<"Unload", cargo, plane, airport>>,
                    << <<In(cargo, plane), At(plane, airport)>>, <<>> >>,
                    << <<In(cargo, plane)>>, <<At(cargo, airport)>> >>)]])])

unload_actions ==
    Concat([i \in 1..Len(airports) |->
      Concat([j \in 1..Len(cargos) |->
        [k \in 1..Len(planes) |->
          LET airport == airports[i]
              cargo == cargos[j]
              plane == planes[k]
          IN Action(<<"Unload", cargo, plane, airport>>,
                    << <<In(cargo, plane), At(plane, airport)>>, <<>> >>,
                    << <<At(cargo, airport)>>, <<In(cargo, plane)>> >>)]])])

\* fly_actions without the fr != to test.
fly_actions_self_loops ==
    Concat([i \in 1..Len(airports) |->
      Concat([j \in 1..Len(airports) |->
        LET fr == airports[i]
            to == airports[j]
        IN [k \in 1..Len(planes) |->
              LET p == planes[k]
              IN Action(<<"Fly", p, fr, to>>,
                        << <<At(p, fr)>>, <<>> >>,
                        << <<At(p, to)>>, <<At(p, fr)>> >>)]])])

\* fly_actions with the plane loop outermost: plane, then fr, then to.
fly_actions_plane_outermost ==
    Concat([k \in 1..Len(planes) |->
      Concat([i \in 1..Len(airports) |->
        Concat([j \in 1..Len(airports) |->
          LET fr == airports[i]
              to == airports[j]
              p == planes[k]
          IN IF fr # to
             THEN <<Action(<<"Fly", p, fr, to>>,
                           << <<At(p, fr)>>, <<>> >>,
                           << <<At(p, to)>>, <<At(p, fr)>> >>)>>
             ELSE <<>>])])])

fly_actions ==
    Concat([i \in 1..Len(airports) |->
      Concat([j \in 1..Len(airports) |->
        LET fr == airports[i]
            to == airports[j]
        IN IF fr # to
           THEN [k \in 1..Len(planes) |->
                  LET p == planes[k]
                  IN Action(<<"Fly", p, fr, to>>,
                            << <<At(p, fr)>>, <<>> >>,
                            << <<At(p, to)>>, <<At(p, fr)>> >>)]
           ELSE <<>>])])

get_actions == load_actions \o unload_actions \o fly_actions

(* ------------------------- transition contract ------------------------ *)

\* can_execute with `can` assigned by every test instead of only cleared: the
\* last precondition of each list decides.
can_execute_last_decides(action, fluent_state) ==
    /\ Len(action.precond_pos) > 0 =>
          Contains(fluent_state.pos,
                   action.precond_pos[Len(action.precond_pos)])
    /\ Len(action.precond_neg) > 0 =>
          Contains(fluent_state.neg,
                   action.precond_neg[Len(action.precond_neg)])

\* The body of the loop over the grounded actions: `can` after both
\* precondition loops.
can_execute(action, fluent_state) ==
    /\ \A i \in 1..Len(action.precond_pos) :
          Contains(fluent_state.pos, action.precond_pos[i])
    /\ \A i \in 1..Len(action.precond_neg) :
          Contains(fluent_state.neg, action.precond_neg[i])

actions(state) ==
    LET all == get_actions
        fluent_state == decode_state(state, state_map)
    IN SelectSeq(all, LAMBDA action : can_execute(action, fluent_state))

\* One effect loop of result: new_state[state_map.index(eff)] = tf for the
\* effects from position k on; a fluent that is not in state_map raises.
RECURSIVE set_effects(_, _, _, _)
set_effects(new_state, effects, k, tf) ==
    IF k > Len(effects)
    THEN [raised |-> "none", value |-> new_state]
    ELSE LET position == index(state_map, effects[k])
         IN IF position = 0
            THEN [raised |-> "ValueError", value |-> <<>>]
            ELSE set_effects([new_state EXCEPT ![position] = tf],
                             effects, k + 1, tf)

\* result with the two effect loops swapped: deletes first, adds last.
result_rem_first(state, action) ==
    LET removed == set_effects(state, action.effect_rem, 1, "F")
    IN IF removed.raised # "none"
       THEN removed
       ELSE set_effects(removed.value, action.effect_add, 1, "T")

result(state, action) ==
    LET added == set_effects(state, action.effect_add, 1, "T")
    IN IF added.raised # "none"
       THEN added
       ELSE set_effects(added.value, action.effect_rem, 1, "F")

\* decode_state(state, state_map).pos_sentence(): the conjunction of the
\* positive fluents, as the sequence of its conjuncts.
pos_sentence(fs) == fs.pos

\* PropKB.tell: the clauses of the sentence are added to the knowledge base.
tell(clauses, sentence) == clauses \o sentence

\* goal_test that only rejects a goal clause known to be false.
goal_test_not_negative(state) ==
    LET fs == decode_state(state, state_map)
    IN \A i \in 1..Len(goal) : ~Contains(fs.neg, goal[i])

goal_test(state) ==
    LET kb == tell(<<>>, pos_sentence(decode_state(state, state_map)))
    IN \A i \in 1..Len(goal) : Contains(kb, goal[i])

(* ----------------------------- heuristics ----------------------------- *)

Node(state) == [state |-> state]

\* h_1 made exact at the goal: 0 for a node whose state passes goal_test.
h_1_zero_at_goal(node) ==
    LET h_const == IF goal_test(node.state) THEN 0 ELSE 1
    IN h_const

h_1(node) ==
    LET h_const == 1
    IN h_const

\* An estimate that counts every goal clause, satisfied or not.
h_count_goal_clauses(node) == Len(goal)

h_ignore_preconditions(node) ==
    LET count == 0
    IN count

(* ---------------------- planning-graph heuristic ---------------------- *)

\* @lru_cache(maxsize=8192)
maxsize == 8192

\* The level of the planning graph at which a literal first appears: level 0
\* holds `literals`, each further level adds the add-effects of the actions
\* whose preconditions are all in the level before; -1 when it never appears.
RECURSIVE first_level(_, _, _)
first_level(literal, literals, level) ==
    IF literal \in literals
    THEN level
    ELSE LET all == actions_list
             usable == {i \in 1..Len(all) :
                           Range(all[i].precond_pos) \subseteq literals}
             reached == literals
                        \cup UNION {Range(all[i].effect_add) : i \in usable}
         IN IF reached = literals
            THEN -1
            ELSE first_level(literal, reached, level + 1)

\* PlanningGraph(problem, state): the graph grown from the fluents that are
\* true in the state.
PlanningGraph(state) == Range(decode_state(state, state_map).pos)

RECURSIVE levelsum_to(_, _)
levelsum_to(pg, k) ==
    IF k = 0 THEN 0 ELSE levelsum_to(pg, k - 1) + first_level(goal[k], pg, 0)

\* pg.h_levelsum(): the sum over the goal literals of their first levels.
h_levelsum(pg) == levelsum_to(pg, Len(goal))

\* The cache is a sequence of entries, least recently used first. An entry
\* [key, value, n |-> 1] memoizes one call; an entry [key |-> Node(<<>>),
\* n |-> k] stands for k entries in a row whose keys are k different pairs
\* that are looked up at no other time.
RECURSIVE cache_len(_)
cache_len(cache) ==
    IF cache = <<>> THEN 0 ELSE Head(cache).n + cache_len(Tail(cache))

\* The position of the entry of a key; 0 when the cache has none.
cache_find(cache, key) ==
    IF \E i \in 1..Len(cache) : cache[i].key = key
    THEN CHOOSE i \in 1..Len(cache) : cache[i].key = key
    ELSE 0

\* A hit makes the entry the most recently used one.
cache_touch(cache, i) ==
    SubSeq(cache, 1, i - 1) \o SubSeq(cache, i + 1, Len(cache))
    \o <<cache[i]>>

\* The k least recently used entries are dropped.
RECURSIVE cache_evict(_, _)
cache_evict(cache, k) ==
    IF k <= 0 \/ cache = <<>>
    THEN cache
    ELSE IF Head(cache).n <= k
         THEN cache_evict(Tail(cache), k - Head(cache).n)
         ELSE <<[Head(cache) EXCEPT !.n = @ - k]>> \o Tail(cache)

\* A miss stores the new entry as the most recently used one; the cache
\* holds at most maxsize entries.
cache_store(cache, entry) ==
    LET stored == Append(cache, entry)
    IN cache_evict(stored, cache_len(stored) - maxsize)

\* h_pg_levelsum without the lru_cache decorator.
h_pg_levelsum_uncached(node, cache) ==
    LET pg == PlanningGraph(node.state)
        pg_levelsum == h_levelsum(pg)
    IN [value |-> pg_levelsum, cache |-> cache, built |-> 1]

\* The decorated h_pg_levelsum, called on the cache: the value returned, the
\* cache afterwards and the number of PlanningGraph objects constructed. The
\* cache key is (self, node); with the one problem instance of the model it
\* is the node, and nodes are equal when their states are.
h_pg_levelsum(node, cache) ==
    LET hit == cache_find(cache, node)
    IN IF hit > 0
       THEN [value |-> cache[hit].value, cache |-> cache_touch(cache, hit),
             built |-> 0]
       ELSE LET pg == PlanningGraph(node.state)
                pg_levelsum == h_levelsum(pg)
            IN [value |-> pg_levelsum,
                cache |-> cache_store(cache, [key |-> node,
                                              value |-> pg_levelsum,
                                              n |-> 1]),
                built |-> 1]

(* ---------------------------- construction ---------------------------- *)

\* AirCargoProblem.__init__
AirCargoProblem(cargo_list, plane_list, airport_list, initial, goal_list) ==
    /\ state_map = initial.pos \o initial.neg
    /\ initial_state_TF = encode_state(initial, state_map)
    /\ goal = goal_list
    /\ cargos = cargo_list
    /\ planes = plane_list
    /\ airports = airport_list
    /\ actions_list = get_actions
    /\ groundings = 1

\* air_cargo_p1 with In(C1, P1) misspelled in the negative list.
air_cargo_p1_misspelled_fluent ==
    LET pos == <<At("C1", "SFO"), At("C2", "JFK"),
                 At("P1", "SFO"), At("P2", "JFK")>>
        neg == <<At("C2", "SFO"), In("C2", "P1"), In("C2", "P2"),
                 At("C1", "JFK"), In("C1", "P3"), In("C1", "P2"),
                 At("P1", "JFK"), At("P2", "SFO")>>
        init == FluentState(pos, neg)
    IN AirCargoProblem(<<"C1", "C2">>, <<"P1", "P2">>, <<"JFK", "SFO">>,
                       init, <<At("C1", "JFK"), At("C2", "SFO")>>)

air_cargo_p1 ==
    LET pos == <<At("C1", "SFO"), At("C2", "JFK"),
                 At("P1", "SFO"), At("P2", "JFK")>>
        neg == <<At("C2", "SFO"), In("C2", "P1"), In("C2", "P2"),
                 At("C1", "JFK"), In("C1", "P1"), In("C1", "P2"),
                 At("P1", "JFK"), At("P2", "SFO")>>
        init == FluentState(pos, neg)
    IN AirCargoProblem(<<"C1", "C2">>, <<"P1", "P2">>, <<"JFK", "SFO">>,
                       init, <<At("C1", "JFK"), At("C2", "SFO")>>)

(* ------------------------- generated problems ------------------------- *)

\* The airport where the i-th cargo and the i-th plane start; with the two
\* airports of air_cargo_p1 this is its placement (C1, P1 at SFO; C2, P2
\* at JFK).
home(i, airport_list) == airport_list[(i % Len(airport_list)) + 1]

\* Every fluent over the given entities: At(cargo, airport), In(cargo, plane)
\* and At(plane, airport).
all_fluents(cargo_list, plane_list, airport_list) ==
    Concat([j \in 1..Len(cargo_list) |->
        [i \in 1..Len(airport_list) |-> At(cargo_list[j], airport_list[i])]])
    \o Concat([j \in 1..Len(cargo_list) |->
        [k \in 1..Len(plane_list) |-> In(cargo_list[j], plane_list[k])]])
    \o Concat([k \in 1..Len(plane_list) |->
        [i \in 1..Len(airport_list) |-> At(plane_list[k], airport_list[i])]])

\* A caller's problem with n airports, c cargos and p planes.
\*   variant 1: the vocabulary covers every fluent; the goal wants every
\*              cargo at the first airport;
\*   variant 2: as 1, but the goal is the initial placement of the cargos
\*              plus a literal about an airport that is not in the problem;
\*   variant 3: the initial state does not list the In fluents of the last
\*              cargo (neither as positive nor as negative); the goal is the
\*              initial placement of the cargos.
scenario(n, c, p, variant) ==
    LET airport_list == SubSeq(AirportPool, 1, n)
        cargo_list == SubSeq(CargoPool, 1, c)
        plane_list == SubSeq(PlanePool, 1, p)
        pos == [j \in 1..c |-> At(cargo_list[j], home(j, airport_list))]
               \o [k \in 1..p |-> At(plane_list[k], home(k, airport_list))]
        listed(f) == /\ ~Contains(pos, f)
                     /\ ~(variant = 3 /\ f[1] = "In" /\ f[2] = cargo_list[c])
        neg == SelectSeq(all_fluents(cargo_list, plane_list, airport_list),
                         listed)
        placed == [j \in 1..c |-> At(cargo_list[j], home(j, airport_list))]
        goal_list ==
            CASE variant = 1 ->
                   [j \in 1..c |-> At(cargo_list[j], airport_list[1])]
              [] variant = 2 ->
                   placed \o <<At(cargo_list[1], UnknownAirport)>>
              [] OTHER -> placed
    IN AirCargoProblem(cargo_list, plane_list, airport_list,
                       FluentState(pos, neg), goal_list)

\* The sets of at most k vocabulary positions.
RECURSIVE flip_sets(_)
flip_sets(k) ==
    IF k = 0
    THEN {{}}
    ELSE LET fewer == flip_sets(k - 1)
         IN fewer \cup {S \cup {i} : S \in fewer, i \in 1..Len(state_map)}

\* The encoded states a caller queries: the initial state with at most
\* MaxFlips positions changed.
query_states ==
    {[i \in 1..Len(state_map) |->
        IF i \in S
        THEN (IF initial_state_TF[i] = "T" THEN "F" ELSE "T")
        ELSE initial_state_TF[i]] : S \in flip_sets(MaxFlips)}

\* Actions a caller can build that are not grounded from the schemas: the
\* same fluent in the add list and in the delete list.
contradictory_actions ==
    {Action(<<"Toggle", f>>, << <<>>, <<>> >>, << <<f>>, <<f>> >>) :
        f \in {state_map[1], state_map[Len(state_map)]}}

\* Actions with a precondition about an airport that is not in the problem,
\* and one with a negative precondition inside the vocabulary: none is
\* grounded from the three schemas, a list of actions can hold them.
guarded_actions ==
    LET unknown == At(cargos[1], UnknownAirport)
        known == state_map[1]
        no_effect == << <<>>, <<>> >>
    IN {Action(<<"NeedsUnknown">>, << <<unknown>>, <<>> >>, no_effect),
        Action(<<"NeedsNotUnknown">>, << <<>>, <<unknown>> >>, no_effect),
        Action(<<"NeedsKnownNotUnknown">>, << <<known>>, <<unknown>> >>,
               no_effect),
        Action(<<"NeedsNotKnown">>, << <<>>, <<known>> >>, no_effect)}

\* The actions a caller passes to result.
candidate_actions == Range(actions_list) \cup contradictory_actions

(* ------------------------------- calls -------------------------------- *)

\* One more run of get_actions.
counted(n) == IF n < MaxGroundings THEN n + 1 ELSE n

no_call ==
    [op |-> "none", state |-> <<>>, action |-> <<>>, value |-> <<>>,
     raised |-> "none"]

\* actions that also stores the filtered list: self.actions_list =
\* possible_actions.
ActionsCall_stores_possible_actions ==
    /\ ret = no_call
    /\ ret' = [op |-> "actions", state |-> node_state, action |-> <<>>,
               value |-> actions(node_state), raised |-> "none"]
    /\ groundings' = counted(groundings)
    /\ actions_list' = actions(node_state)
    /\ UNCHANGED <<cargos, planes, airports, state_map, initial_state_TF,
                   goal, node_state, path, pg_vars>>

\* problem.actions(node_state)
ActionsCall ==
    /\ ret = no_call
    /\ ret' = [op |-> "actions", state |-> node_state, action |-> <<>>,
               value |-> actions(node_state), raised |-> "none"]
    /\ groundings' = counted(groundings)
    /\ UNCHANGED <<problem_vars, node_state, path, pg_vars>>

\* problem.result(node_state, action), whatever the action
ResultCall(action) ==
    /\ ret = no_call
    /\ LET r == result(node_state, action)
       IN ret' = [op |-> "result", state |-> node_state, action |-> action,
                  value |-> r.value, raised |-> r.raised]
    /\ UNCHANGED <<problem_vars, node_state, path, pg_vars, groundings>>

\* problem.goal_test(node_state)
GoalTestCall ==
    /\ ret = no_call
    /\ ret' = [op |-> "goal_test", state |-> node_state, action |-> <<>>,
               value |-> goal_test(node_state), raised |-> "none"]
    /\ UNCHANGED <<problem_vars, node_state, path, pg_vars, groundings>>

\* The fluent states a caller writes for the state node_state: the decoded
\* state itself, the same lists in reverse order, the state with its last
\* negative fluent left out, with no negative fluent listed at all, and
\* with its first negative fluent listed as positive too.
fluent_states ==
    LET fs == decode_state(node_state, state_map)
        reverse(seq) == [i \in 1..Len(seq) |-> seq[Len(seq) + 1 - i]]
    IN {fs,
        FluentState(reverse(fs.pos), reverse(fs.neg)),
        FluentState(fs.pos, [i \in 1..(Len(fs.neg) - 1) |-> fs.neg[i]]),
        FluentState(fs.pos, <<>>),
        FluentState(fs.pos \o [i \in 1..Len(fs.neg) \cap {1} |-> fs.neg[i]],
                    fs.neg)}

\* decode_state(encode_state(fs, problem.state_map), problem.state_map)
RoundTripCall(fs) ==
    /\ ret = no_call
    /\ ret' = [op |-> "decode_encode", state |-> fs, action |-> <<>>,
               value |-> decode_state(encode_state(fs, state_map),
                                      state_map),
               raised |-> "none"]
    /\ UNCHANGED <<problem_vars, node_state, path, pg_vars, groundings>>

\* One pass of the loop of problem.actions(node_state) over an action of
\* the list: whether the action is appended to possible_actions.
FilterCall(action) ==
    /\ ret = no_call
    /\ ret' = [op |-> "can_execute", state |-> node_state,
               action |-> action,
               value |-> can_execute(action,
                                     decode_state(node_state, state_map)),
               raised |-> "none"]
    /\ UNCHANGED <<problem_vars, node_state, path, pg_vars, groundings>>

\* problem.h_1(node)
H1Call ==
    /\ ret = no_call
    /\ ret' = [op |-> "h_1", state |-> node_state, action |-> <<>>,
               value |-> h_1(Node(node_state)), raised |-> "none"]
    /\ UNCHANGED <<problem_vars, node_state, path, pg_vars, groundings>>

\* problem.h_ignore_preconditions(node)
HIgnoreCall ==
    /\ ret = no_call
    /\ ret' = [op |-> "h_ignore_preconditions", state |-> node_state,
               action |-> <<>>,
               value |-> h_ignore_preconditions(Node(node_state)),
               raised |-> "none"]
    /\ UNCHANGED <<problem_vars, node_state, path, pg_vars, groundings>>

\* The nodes a search evaluates one by one: the root and the first MaxNodes
\* successors of the root.
evaluated_nodes ==
    LET successors == actions(initial_state_TF)
    IN {Node(initial_state_TF)}
       \cup {Node(result(initial_state_TF, successors[i]).value) :
                i \in 1..MaxNodes \cap 1..Len(successors)}

\* The numbers of other pairs a search evaluates in a row.
other_batches == {1, maxsize - 1, maxsize}

\* problem.h_pg_levelsum(node)
HPgCall(node) ==
    /\ ret = no_call
    /\ Len(pg_log) < MaxCalls
    /\ LET r == h_pg_levelsum(node, pg_cache)
       IN /\ pg_cache' = r.cache
          /\ pg_built' = pg_built + r.built
          /\ pg_log' = Append(pg_log, [state |-> node.state,
                                       value |-> r.value, n |-> 1])
          /\ ret' = [op |-> "h_pg_levelsum", state |-> node.state,
                     action |-> <<>>, value |-> r.value, raised |-> "none"]
    /\ UNCHANGED <<problem_vars, node_state, path, groundings>>

\* h_pg_levelsum is called once on each of k other (problem, state) pairs,
\* k different pairs that are evaluated at no other time: states outside
\* evaluated_nodes, or states of other problem instances of the process (the
\* cache belongs to the function, all instances share it). Each call misses,
\* constructs a PlanningGraph and stores an entry.
HPgCallOthers(k) ==
    /\ ret = no_call
    /\ Len(pg_log) < MaxCalls
    /\ pg_cache' = cache_store(pg_cache,
                               [key |-> Node(<<>>), value |-> 0, n |-> k])
    /\ pg_built' = pg_built + k
    /\ pg_log' = Append(pg_log, [state |-> <<>>, value |-> 0, n |-> k])
    /\ UNCHANGED <<problem_vars, node_state, path, ret, groundings>>

\* The search expands the current node: for an action of
\* problem.actions(node_state), the child's state is
\* problem.result(node_state, action).
Expand(action) ==
    /\ ret = no_call
    /\ Len(path) < MaxDepth
    /\ Contains(actions(node_state), action)
    /\ LET r == result(node_state, action)
       IN /\ r.raised = "none"
          /\ node_state' = r.value
          /\ ret' = [op |-> "result", state |-> node_state,
                     action |-> action, value |-> r.value,
                     raised |-> r.raised]
    /\ path' = Append(path, action.name)
    /\ groundings' = counted(groundings)
    /\ UNCHANGED <<problem_vars, pg_vars>>

\* The call returns: the caller takes the value (the core is single-threaded
\* and synchronous, one call at a time).
Return ==
    /\ ret # no_call
    /\ ret' = no_call
    /\ UNCHANGED <<problem_vars, node_state, path, pg_vars, groundings>>

(* --------------------------- specifications --------------------------- *)

\* A caller builds a problem, picks an encoded state over its vocabulary and
\* calls the methods on it.
Init ==
    /\ \/ air_cargo_p1
       \/ \E n \in 1..MaxAirports, c \in 1..MaxCargos, p \in 1..MaxPlanes,
             variant \in 1..3 : scenario(n, c, p, variant)
    /\ node_state \in query_states
    /\ path = <<>>
    /\ ret = no_call
    /\ pg_cache = <<>>
    /\ pg_built = 0
    /\ pg_log = <<>>

Next ==
    \/ ActionsCall
    \/ \E action \in candidate_actions : ResultCall(action)
    \/ GoalTestCall
    \/ H1Call
    \/ HIgnoreCall
    \/ Return

Spec == Init /\ [][Next]_vars

\* A search on air_cargo_p1 from its initial state.
InitP1 ==
    /\ air_cargo_p1
    /\ node_state = initial_state_TF
    /\ path = <<>>
    /\ ret = no_call
    /\ pg_cache = <<>>
    /\ pg_built = 0
    /\ pg_log = <<>>

NextSearch ==
    \/ \E action \in Range(actions_list) : Expand(action)
    \/ ActionsCall
    \/ GoalTestCall
    \/ H1Call
    \/ HIgnoreCall
    \/ Return

SpecP1 == InitP1 /\ [][NextSearch]_vars

\* A caller encodes fluent states over the vocabulary of its problem and
\* decodes them again.
NextCodec ==
    \/ \E fs \in fluent_states : RoundTripCall(fs)
    \/ Return

SpecCodec == Init /\ [][NextCodec]_vars

\* The applicability filter runs over grounded actions and over actions
\* with other preconditions.
NextFilter ==
    \/ \E action \in Range(actions_list) \cup guarded_actions :
          FilterCall(action)
    \/ Return

SpecFilter == Init /\ [][NextFilter]_vars

\* A search on air_cargo_p1 that evaluates nodes with h_pg_levelsum.
NextCache ==
    \/ \E node \in evaluated_nodes : HPgCall(node)
    \/ \E k \in other_batches : HPgCallOthers(k)
    \/ Return

SpecCache == InitP1 /\ [][NextCache]_vars

(* ------------------------------- claims ------------------------------- *)

\* The literal is a fluent of the vocabulary whose position holds 'T'.
TrueIn(literal, state) ==
    \E i \in 1..Len(state_map) : state_map[i] = literal /\ state[i] = "T"

Applicable(action, state) ==
    /\ \A i \in 1..Len(action.precond_pos) :
          TrueIn(action.precond_pos[i], state)
    /\ \A i \in 1..Len(action.precond_neg) :
          ~TrueIn(action.precond_neg[i], state)

\* C1: actions(state) returns exactly the grounded actions whose positive
\* preconditions are all true in the state and whose negative preconditions
\* are all false in it: none is missing, none is extra, none is repeated.
C1_ActionsExactlyApplicable ==
    ret.op = "actions" =>
        /\ Range(ret.value) =
              {a \in Range(actions_list) : Applicable(a, ret.state)}
        /\ Cardinality(Range(ret.value)) = Len(ret.value)

\* A call of actions on a state that is not the initial one, which returns
\* some of the grounded actions and leaves others out.
C1_Witness ==
    /\ ret.op = "actions"
    /\ ret.state # initial_state_TF
    /\ ret.value # <<>>
    /\ \E a \in Range(actions_list) : ~Contains(ret.value, a)

AllInVocabulary(literals) ==
    \A i \in 1..Len(literals) : Contains(state_map, literals[i])

\* The vector the effects describe: 'F' at the delete positions, 'T' at the
\* add positions that are not delete positions, the input elsewhere.
EffectVector(value, state, action) ==
    /\ Len(value) = Len(state)
    /\ \A i \in 1..Len(state) :
          value[i] = IF Contains(action.effect_rem, state_map[i]) THEN "F"
                     ELSE IF Contains(action.effect_add, state_map[i])
                          THEN "T"
                          ELSE state[i]

\* C2 as stated: for every state and action, result returns the vector that
\* is false at the delete positions, true at the add positions that are not
\* delete positions and unchanged elsewhere.
C2_ResultForEveryAction ==
    ret.op = "result" =>
        /\ ret.raised = "none"
        /\ EffectVector(ret.value, ret.state, ret.action)

\* C2 amended: this holds for every action whose add and delete literals
\* are all fluents of the vocabulary (a fluent in both lists ends false);
\* with an effect literal outside the vocabulary result raises ValueError
\* and returns no vector.
C2_ResultEffectsInVocabulary ==
    ret.op = "result" =>
        IF /\ AllInVocabulary(ret.action.effect_add)
           /\ AllInVocabulary(ret.action.effect_rem)
        THEN /\ ret.raised = "none"
             /\ EffectVector(ret.value, ret.state, ret.action)
        ELSE ret.raised = "ValueError"

\* result returned for an action with the same fluent in its add list and
\* in its delete list, and the fluent was false before.
C2_Witness ==
    /\ ret.op = "result"
    /\ ret.raised = "none"
    /\ \E i \in 1..Len(state_map) :
          /\ Contains(ret.action.effect_add, state_map[i])
          /\ Contains(ret.action.effect_rem, state_map[i])
          /\ ret.state[i] = "F"

\* C3: result with an action that is not in actions(state) fails with an
\* error and returns no successor state.
C3_InapplicableActionFails ==
    (ret.op = "result" /\ ~Contains(actions(ret.state), ret.action)) =>
        /\ ret.raised # "none"
        /\ ret.value = <<>>

\* C4: goal_test(state) is true iff every goal literal is a fluent that is
\* true in the state; with a goal literal outside the vocabulary it is
\* false, and it never raises.
C4_GoalTestIffAllTrue ==
    ret.op = "goal_test" =>
        /\ ret.raised = "none"
        /\ ret.value = (\A i \in 1..Len(goal) : TrueIn(goal[i], ret.state))
        /\ ~AllInVocabulary(goal) => ret.value = FALSE

\* goal_test returned false on a state where every goal literal of the
\* vocabulary is true and one goal literal is outside the vocabulary.
C4_Witness ==
    /\ ret.op = "goal_test"
    /\ ret.value = FALSE
    /\ ~AllInVocabulary(goal)
    /\ \A i \in 1..Len(goal) :
          Contains(state_map, goal[i]) => TrueIn(goal[i], ret.state)

NamesOf(action_list, kind) ==
    {action_list[i].name : i \in {k \in 1..Len(action_list) :
                                      action_list[k].name[1] = kind}}

\* C5: with n airports, c cargos and p planes the grounded list has
\* n*c*p Load, n*c*p Unload and p*n*(n-1) Fly actions, 2*n*c*p + p*n*(n-1)
\* in all, and no Fly action has its origin as destination.
C5_GroundedActionCount ==
    LET n == Len(airports)
        c == Len(cargos)
        p == Len(planes)
        count(kind) == Cardinality({i \in 1..Len(actions_list) :
                                       actions_list[i].name[1] = kind})
    IN /\ Len(actions_list) = 2 * n * c * p + p * n * (n - 1)
       /\ Cardinality(Range(actions_list)) = Len(actions_list)
       /\ count("Load") = n * c * p
       /\ count("Unload") = n * c * p
       /\ count("Fly") = p * n * (n - 1)
       /\ \A a \in Range(actions_list) :
             a.name[1] = "Fly" => a.name[3] # a.name[4]

\* A problem with two airports, one cargo and two planes: 12 actions, 4 of
\* them Fly actions.
C5_Witness ==
    /\ Len(airports) = 2 /\ Len(cargos) = 1 /\ Len(planes) = 2
    /\ Len(actions_list) = 12
    /\ Cardinality(NamesOf(actions_list, "Fly")) = 4

\* C6: every grounded action has exactly the literals of its schema and no
\* negative precondition.  Load(c,p,a): requires At(p,a), At(c,a); adds
\* In(c,p); deletes At(c,a).  Unload(c,p,a): requires In(c,p), At(p,a); adds
\* At(c,a); deletes In(c,p).  Fly(p,from,to): requires At(p,from); adds
\* At(p,to); deletes At(p,from).
C6_SchemaLiterals ==
    \A a \in Range(actions_list) :
        LET x == a.name[2]
            y == a.name[3]
            z == a.name[4]
        IN /\ a.precond_neg = <<>>
           /\ a.name[1] \in {"Load", "Unload", "Fly"}
           /\ a.name[1] = "Load" =>
                /\ Range(a.precond_pos) = {At(y, z), At(x, z)}
                /\ Len(a.precond_pos) = 2
                /\ a.effect_add = <<In(x, y)>>
                /\ a.effect_rem = <<At(x, z)>>
           /\ a.name[1] = "Unload" =>
                /\ Range(a.precond_pos) = {In(x, y), At(y, z)}
                /\ Len(a.precond_pos) = 2
                /\ a.effect_add = <<At(x, z)>>
                /\ a.effect_rem = <<In(x, y)>>
           /\ a.name[1] = "Fly" =>
                /\ a.precond_pos = <<At(x, y)>>
                /\ a.effect_add = <<At(x, z)>>
                /\ a.effect_rem = <<At(x, y)>>

\* The grounded list of a problem holds actions of the three schemas.
C6_Witness ==
    /\ NamesOf(actions_list, "Load") # {}
    /\ NamesOf(actions_list, "Unload") # {}
    /\ NamesOf(actions_list, "Fly") # {}

\* The place of an action in an iteration order: the schema, then the
\* positions of its entities in the problem's lists.
LexLess(k1, k2) ==
    \E i \in 1..4 : k1[i] < k2[i] /\ \A j \in 1..(i - 1) : k1[j] = k2[j]

\* Load and Unload: airport, then cargo, then plane.
LoadKey(name) ==
    <<IF name[1] = "Load" THEN 1 ELSE 2, index(airports, name[4]),
      index(cargos, name[2]), index(planes, name[3])>>

\* Fly by plane, then origin, then destination.
KeyPlaneFirst(name) ==
    IF name[1] = "Fly"
    THEN <<3, index(planes, name[2]), index(airports, name[3]),
           index(airports, name[4])>>
    ELSE LoadKey(name)

\* Fly by origin, then destination, then plane.
KeyPlaneLast(name) ==
    IF name[1] = "Fly"
    THEN <<3, index(airports, name[3]), index(airports, name[4]),
           index(planes, name[2])>>
    ELSE LoadKey(name)

C8_P1InitialActions ==
    (ret.op = "actions" /\ ret.state = initial_state_TF) =>
        /\ Len(ret.value) = 4
        /\ {ret.value[i].name : i \in 1..Len(ret.value)} =
              {<<"Load", "C1", "P1", "SFO">>, <<"Load", "C2", "P2", "JFK">>,
               <<"Fly", "P1", "SFO", "JFK">>, <<"Fly", "P2", "JFK", "SFO">>}

\* actions was called on the initial state of air_cargo_p1: C1 and P1 at
\* SFO, C2 and P2 at JFK, nothing else true.
C8_Witness ==
    /\ ret.op = "actions"
    /\ path = <<>>
    /\ airports = <<"JFK", "SFO">>
    /\ cargos = <<"C1", "C2">>
    /\ planes = <<"P1", "P2">>
    /\ {state_map[i] : i \in {k \in 1..Len(state_map) : ret.state[k] = "T"}}
          = {At("C1", "SFO"), At("C2", "JFK"), At("P1", "SFO"),
             At("P2", "JFK")}

PlanP1 ==
    <<<<"Load", "C1", "P1", "SFO">>, <<"Fly", "P1", "SFO", "JFK">>,
      <<"Unload", "C1", "P1", "JFK">>, <<"Load", "C2", "P2", "JFK">>,
      <<"Fly", "P2", "JFK", "SFO">>, <<"Unload", "C2", "P2", "SFO">>>>

\* C9: in air_cargo_p1, after any prefix of the plan Load(C1,P1,SFO),
\* Fly(P1,SFO,JFK), Unload(C1,P1,JFK), Load(C2,P2,JFK), Fly(P2,JFK,SFO),
\* Unload(C2,P2,SFO) the next action of the plan is in actions(state), and
\* after the whole plan goal_test is true for the goal
\* [At(C1,JFK), At(C2,SFO)].
C9_P1PlanReachesGoal ==
    (Len(path) <= Len(PlanP1) /\ path = SubSeq(PlanP1, 1, Len(path))) =>
        IF Len(path) < Len(PlanP1)
        THEN \E a \in Range(actions(node_state)) :
                a.name = PlanP1[Len(path) + 1]
        ELSE /\ goal = <<At("C1", "JFK"), At("C2", "SFO")>>
             /\ goal_test(node_state)
             /\ ret.op = "goal_test" => ret.value = TRUE

\* goal_test was called after the six actions of the plan.
C9_Witness ==
    /\ path = PlanP1
    /\ ret.op = "goal_test"
    /\ ret.state = node_state

\* The grounded action of that name.
ActionNamed(name) ==
    CHOOSE a \in Range(actions_list) : a.name = name

\* The state of the search after the first k actions of its path.
RECURSIVE StateAfter(_)
StateAfter(k) ==
    IF k = 0
    THEN initial_state_TF
    ELSE result(StateAfter(k - 1), ActionNamed(path[k])).value

\* C10: h_ignore_preconditions never overestimates: when the search is in
\* a state that satisfies goal_test, the estimate of every state on its
\* path is at most the number of actions applied from that state on, so
\* the estimate of a reachable state is at most the length of every
\* sequence of applicable actions from it to a goal state.
C10_HIgnoreAdmissible ==
    /\ goal_test(node_state) =>
          \A k \in 0..Len(path) :
              h_ignore_preconditions(Node(StateAfter(k))) <= Len(path) - k
    /\ (ret.op = "h_ignore_preconditions" /\ goal_test(ret.state)) =>
          ret.value <= 0

\* The heuristic was called in a goal state that the search reached by six
\* actions.
C10_Witness ==
    /\ ret.op = "h_ignore_preconditions"
    /\ ret.state = node_state
    /\ goal_test(node_state)
    /\ Len(path) = 6

\* C11: h_1 returns 1 for every node, whatever its state: for states that
\* pass goal_test as for states that do not.
C11_H1AlwaysOne ==
    ret.op = "h_1" => ret.value = 1

C11_Witness ==
    /\ ret.op = "h_1"
    /\ goal_test(ret.state)
    /\ Len(goal) > 0
    /\ ret.value = 1

\* The number of different (problem, state) pairs in a log of calls.
RECURSIVE others_in(_)
others_in(log) ==
    IF log = <<>>
    THEN 0
    ELSE (IF Head(log).state = <<>> THEN Head(log).n ELSE 0)
         + others_in(Tail(log))

distinct_pairs(log) ==
    Cardinality({log[i].state : i \in 1..Len(log)} \ {<<>>}) + others_in(log)

\* Every call on a state returned what the first call on that state did.
FirstValueReturned ==
    \A i, j \in 1..Len(pg_log) :
        (pg_log[i].state = pg_log[j].state /\ pg_log[i].state # <<>>)
            => pg_log[i].value = pg_log[j].value

\* C12 as stated: after any sequence of h_pg_levelsum calls, a pair queried
\* before gets the value computed the first time and the number of planning
\* graphs constructed is the number of different pairs queried, however many
\* other pairs were queried in between.
C12_OneGraphPerPair ==
    /\ FirstValueReturned
    /\ pg_built = distinct_pairs(pg_log)

\* C12 amended: a pair queried before gets the value computed the first
\* time; the number of planning graphs constructed is never below the number
\* of different pairs queried, and equals it as long as at most maxsize
\* (8192) different pairs have been queried.
C12_OneGraphPerPairUpToMaxsize ==
    /\ FirstValueReturned
    /\ pg_built >= distinct_pairs(pg_log)
    /\ distinct_pairs(pg_log) <= maxsize
          => pg_built = distinct_pairs(pg_log)

\* A state is queried, maxsize - 1 other pairs are queried, and the state
\* is queried again: no graph is constructed for it.
C12_Witness ==
    /\ Len(pg_log) = 3
    /\ pg_log[1].state = pg_log[3].state
    /\ pg_log[2].n = maxsize - 1
    /\ ret.op = "h_pg_levelsum"
    /\ ret.value = pg_log[1].value
    /\ ret.value > 0
    /\ pg_built = maxsize

\* C13: the grounder runs exactly once per problem instance, at
\* construction: whatever actions(state) calls followed, get_actions has run
\* once.
C13_GroundedOnce ==
    groundings = 1

\* Two fluent states with the same positive and the same negative fluents.
SameFluents(a, b) ==
    /\ Range(a.pos) = Range(b.pos)
    /\ Range(a.neg) = Range(b.neg)

\* Every fluent of the vocabulary is listed exactly once, as positive or as
\* negative.
ListsEveryFluent(fs) ==
    /\ Range(fs.pos) \cup Range(fs.neg) = Range(state_map)
    /\ Range(fs.pos) \cap Range(fs.neg) = {}

\* C14 as stated: for every fluent state s over the vocabulary V,
\* decode(encode(s, V), V) has the fluents of s, also when s lists some
\* fluent of V neither as positive nor as negative.
C14_RoundTripEveryState ==
    ret.op = "decode_encode" => SameFluents(ret.value, ret.state)

\* C14 amended: decode(encode(s, V), V) has the positive fluents of s and
\* lists every other fluent of V as negative; it has the fluents of s exactly
\* when s lists every fluent of V once, as positive or as negative.
C14_RoundTripListedStates ==
    ret.op = "decode_encode" =>
        /\ Range(ret.value.pos) = Range(ret.state.pos)
        /\ Range(ret.value.neg) = Range(state_map) \ Range(ret.state.pos)
        /\ SameFluents(ret.value, ret.state) <=> ListsEveryFluent(ret.state)

\* A state that leaves a fluent of the vocabulary out comes back with that
\* fluent listed as negative.
C14_Witness ==
    /\ ret.op = "decode_encode"
    /\ Range(ret.state.pos) \cap Range(ret.state.neg) = {}
    /\ \E f \in Range(state_map) :
          /\ f \notin Range(ret.state.pos) \cup Range(ret.state.neg)
          /\ f \in Range(ret.value.neg)
    /\ Range(ret.value.pos) = Range(ret.state.pos)
    /\ Len(ret.state.pos) > 0

\* The smallest number of grounded actions whose add-effects, taken
\* together, contain every goal literal that is not true in the state; -1
\* when no set of grounded actions does.
min_cover(state) ==
    LET unsatisfied == {goal[i] : i \in 1..Len(goal)}
                       \ {f \in Range(goal) : TrueIn(f, state)}
        useful == {a \in Range(actions_list) :
                      Range(a.effect_add) \cap unsatisfied # {}}
        covers == {S \in SUBSET useful :
                      unsatisfied
                      \subseteq UNION {Range(a.effect_add) : a \in S}}
    IN IF covers = {}
       THEN -1
       ELSE CHOOSE k \in 0..Cardinality(useful) :
               /\ \E S \in covers : Cardinality(S) = k
               /\ \A S \in covers : Cardinality(S) >= k

\* C15: h_ignore_preconditions(node) is the minimum number of grounded
\* actions whose add-effects cover every goal literal not yet true in
\* node.state; it is 0 only for states in which every goal literal holds.
C15_HIgnoreMinimumCover ==
    ret.op = "h_ignore_preconditions" =>
        /\ ret.value = min_cover(ret.state)
        /\ ret.value = 0 => goal_test(ret.state)

\* The precondition literals of an action that are not in the vocabulary.
UnknownLiterals(literals) ==
    {literals[i] : i \in 1..Len(literals)} \ Range(state_map)

AirportsOf(x, state) ==
    {a \in Range(airports) : TrueIn(At(x, a), state)}

PlanesOf(cargo, state) ==
    {p \in Range(planes) : TrueIn(In(cargo, p), state)}

\* C17: in every state of air_cargo_p1 reached from the initial state by
\* actions of actions(state), each plane is at exactly one airport and each
\* cargo is in exactly one place: at one airport or in one plane.
C17_OnePlaceEach ==
    /\ \A p \in Range(planes) : Cardinality(AirportsOf(p, node_state)) = 1
    /\ \A c \in Range(cargos) :
          Cardinality(AirportsOf(c, node_state))
          + Cardinality(PlanesOf(c, node_state)) = 1

\* Both cargos are in planes and both planes have left their airports.
C17_Witness ==
    /\ Len(path) >= 4
    /\ \A c \in Range(cargos) :
          Cardinality(PlanesOf(c, node_state)) = 1
          /\ AirportsOf(c, node_state) = {}
    /\ \A p \in Range(planes) :
          Cardinality(AirportsOf(p, node_state)) = 1
          /\ TrueIn(At(p, "SFO"), initial_state_TF)
                # TrueIn(At(p, "SFO"), node_state)

\* A successor that result computed without a failed lookup: a vector of
\* the length of the vocabulary with 'T' or 'F' at every position.
WellFormed(r) ==
    /\ r.raised = "none"
    /\ Len(r.value) = Len(state_map)
    /\ \A k \in 1..Len(r.value) : r.value[k] \in {"T", "F"}

\* C18: the vocabulary of air_cargo_p1 (12 fluents) contains every add and
\* delete fluent of every grounded action, and for every reached state and
\* every action of actions(state), result(state, action) fails on no lookup
\* and returns a vector of 12 positions, each 'T' or 'F'.
C18_P1ResultWellFormed ==
    /\ Len(state_map) = 12
    /\ \A a \in Range(actions_list) :
          AllInVocabulary(a.effect_add) /\ AllInVocabulary(a.effect_rem)
    /\ LET applicable == actions(node_state)
       IN \A i \in 1..Len(applicable) :
             WellFormed(result(node_state, applicable[i]))

\* The search applied actions and the last successor is the current state.
C18_Witness ==
    /\ Len(path) >= 3
    /\ ret.op = "result"
    /\ ret.raised = "none"
    /\ ret.value = node_state
    /\ ret.value # ret.state
    /\ Len(ret.value) = 12
    /\ Len(actions(node_state)) > 0

\* A step of actions, result or goal_test: the fields of the problem
\* instance stay as they are, the call is recorded with the state it was
\* given, and that state is still what the caller holds unless the caller
\* moves on to the successor that result returned.
FrameStep ==
    /\ problem_vars' = problem_vars
    /\ ret'.op \in {"actions", "result", "goal_test"} =>
          /\ ret'.state = node_state
          /\ node_state' = node_state
             \/ (ret'.op = "result" /\ node_state' = ret'.value)

\* C19: actions(state), result(state, action) and goal_test(state) leave
\* the problem instance (state_map, initial state, goal, actions_list) and
\* the input state unchanged; result returns a new value.
C19_FrameProperty == [][FrameStep]_vars

\* The search is back at the initial state after two flights and asks for
\* the applicable actions again: the four actions of the first query, from
\* the same instance.
C19_Witness ==
    /\ Len(path) = 2
    /\ node_state = initial_state_TF
    /\ ret.op = "actions"
    /\ ret.state = initial_state_TF
    /\ NamesOf(ret.value, "Load") = {<<"Load", "C1", "P1", "SFO">>,
                                      <<"Load", "C2", "P2", "JFK">>}
    /\ Len(ret.value) = 4
    /\ actions_list = get_actions
    /\ Len(state_map) = 12

\* C20: in air_cargo_p1 no state that passes goal_test is reached from the
\* initial state by fewer than 6 applications of applicable actions.
C20_P1NoShorterPlan ==
    goal_test(node_state) => Len(path) >= 6

\* A goal state reached by 6 actions in another order than PlanP1: both
\* cargos are loaded first.
C20_Witness ==
    /\ goal_test(node_state)
    /\ Len(path) = 6
    /\ path # PlanP1
    /\ {path[1][1], path[2][1]} = {"Load"}
    /\ {path[i] : i \in 1..6} = {PlanP1[i] : i \in 1..6}

====
